---- MODULE Spec2Model ----
(***************************************************************************)
(* Rayminder: the record store and the trackable engine of                 *)
(* src/lib/storage.ts (habits, timer sessions, completions, postpones).    *)
(*                                                                         *)
(* Timestamps are kept as integer milliseconds since the epoch: the code   *)
(* stores them as ISO strings produced by toISOString() and reads them     *)
(* back with new Date(iso).getTime(), which is exact at millisecond        *)
(* resolution.  Optional fields (expectedDurationMinutes, lastCompletedAt, *)
(* lastReminderAt, an options member) are sequences of length 0 or 1.      *)
(* Where calls run one at a time, an engine call is one action, and the   *)
(* variable call holds the outcome of the call that has just run, together *)
(* with the collections as they were before it, until the caller has taken *)
(* it.  A call samples the clock once, except the creation of a habit,     *)
(* which reads it twice (both readings are modelled in SpecCreate).  In    *)
(* SpecSteps and SpecRaces a call is taken await by await, and call holds  *)
(* the calls in flight.  The numbers of the score are IEEE 754 doubles.    *)
(*                                                                         *)
(* Spec           the engine calls of the dashboard                        *)
(* SpecCreate     creating and listing habits, both clock readings         *)
(* SpecReminders  the background command, one run a minute                 *)
(* SpecUnattended the background command with the user away, for ever      *)
(* SpecScore      the daily score of the stores the engine leaves          *)
(* SpecFormat     the due text of a habit around its due time              *)
(* SpecHabitScore the score of one habit                                   *)
(* SpecSteps      the engine calls await by await, with crashes            *)
(* SpecRaces      the calls of two callers interleaved at their awaits     *)
(***************************************************************************)
EXTENDS Integers, Sequences, FiniteSets, TLC

VARIABLES habits, sessions, completions, postpones, now, nextUid, returned,
          call, preferences

vars == <<habits, sessions, completions, postpones, now, nextUid, returned,
          call, preferences>>

\* ---------------------------------------------------------------- bounds
\* Largest value of the wall clock (ms) the model lets time reach.
MaxNow == 61500
\* Number of ids uid() hands out (habits, sessions, completions, postpones).
MaxUid == 3
\* Number of habits the model lets the store hold.
MaxHabits == 2
\* Number of runs of the background command, one a minute.
MaxRuns == 3
\* Number of habits left overdue while the user is away.
MaxOverdue == 3

\* ------------------------------------------------------ program constants
MsPerMinute == 60000
MsPerSecond == 1000
\* A day; the clock of the model counts from a local midnight.
MsPerDay == 86400000
\* The throttle the background command falls back to.
DefaultThrottleMinutes == 5

\* ------------------------------------------------------------ input sets
\* Amounts by which the wall clock advances between two calls: a minute
\* and a half second, so that elapsed times are not whole seconds.
TickSteps == {MsPerMinute + 1500}
\* An id no habit ever carries (uid() starts at 1).
UnknownId == 0
\* Drafts handed to upsertHabit; the second one carries the non-positive
\* numbers the engine's signature admits.
Drafts ==
  { [type |-> "habit", intervalMinutes |-> 1, targetRepetitionsPerDay |-> 1,
     expectedDurationMinutes |-> <<>>],
    [type |-> "task", intervalMinutes |-> 0, targetRepetitionsPerDay |-> 0,
     expectedDurationMinutes |-> <<0>>] }
\* The preferences before the user has set any: every text is empty.
UnsetPreferences == [reminderThrottleMinutes |-> ""]
\* Texts of the reminderThrottleMinutes preference.
ThrottleTexts == {"1", "2"}
\* Milliseconds the clock moves between the two readings upsertHabit takes
\* when it creates a habit.
ClockLags == {0, 1}
\* Minutes handed to postponeHabit (whole numbers, some below 1).
PostponeMinutes == {0, 2}

\* --------------------------------------------------------------- helpers
Max(a, b) == IF a > b THEN a ELSE b

\* habits.findIndex((habit) => habit.id === habitId), 1-based; 0 stands for
\* the code's -1.
habitIndex(hs, habitId) ==
  IF \E i \in 1..Len(hs) : hs[i].id = habitId
  THEN CHOOSE i \in 1..Len(hs) :
         hs[i].id = habitId /\ \A j \in 1..(i - 1) : hs[j].id # habitId
  ELSE 0

\* sessions.find((session) => session.habitId === habitId) as an index,
\* 1-based; 0 stands for undefined.
sessionIndex(ss, habitId) ==
  IF \E i \in 1..Len(ss) : ss[i].habitId = habitId
  THEN CHOOSE i \in 1..Len(ss) :
         ss[i].habitId = habitId /\ \A j \in 1..(i - 1) : ss[j].habitId # habitId
  ELSE 0

\* The four persisted collections as one value.
Store == [habits |-> habits, sessions |-> sessions,
          completions |-> completions, postpones |-> postpones]

\* The outcome of a call: the collections it leaves, the error it threw
\* ("ok" when it returned) and the value it returned.
Outcome(st, res, ret) == [st |-> st, res |-> res, ret |-> ret]

\* secondsBetween rounding to the nearest second instead of flooring.
secondsBetweenRounded(start, end) ==
  Max(0, (end - start + MsPerSecond \div 2) \div MsPerSecond)

\* time.ts secondsBetween: whole seconds from start to end, never negative.
secondsBetween(start, end) == Max(0, (end - start) \div MsPerSecond)

\* time.ts minutesBetween: whole minutes from start to end, never negative.
minutesBetween(start, end) == Max(0, (end - start) \div MsPerMinute)

\* ------------------------------------------------------- trackable engine
\* upsertHabit without existingId: a new habit, due one interval from now.
\* The draft's numbers are stored as given.  The code reads the clock
\* twice: createdAt is the first reading t, dueAt counts from the second
\* reading dueFrom.
createHabit(st, draft, t, dueFrom, uid) ==
  LET habit == [id |-> uid,
                type |-> draft.type,
                intervalMinutes |-> draft.intervalMinutes,
                targetRepetitionsPerDay |-> draft.targetRepetitionsPerDay,
                expectedDurationMinutes |-> draft.expectedDurationMinutes,
                createdAt |-> t,
                dueAt |-> dueFrom + draft.intervalMinutes * MsPerMinute,
                lastCompletedAt |-> <<>>,
                lastReminderAt |-> <<>>,
                archived |-> FALSE]
  IN Outcome([st EXCEPT !.habits = Append(st.habits, habit)], "ok", <<habit>>)

\* upsertHabit with existingId bringing an archived habit back.
updateHabitUnarchiving(st, draft, existingId) ==
  LET index == habitIndex(st.habits, existingId)
      previous == st.habits[index]
      next == [previous EXCEPT
                 !.type = draft.type,
                 !.intervalMinutes = draft.intervalMinutes,
                 !.targetRepetitionsPerDay = draft.targetRepetitionsPerDay,
                 !.expectedDurationMinutes = draft.expectedDurationMinutes,
                 !.archived = FALSE]
  IN IF index = 0
     THEN Outcome(st, "NotFound", <<>>)
     ELSE Outcome([st EXCEPT !.habits[index] = next], "ok", <<next>>)

\* upsertHabit with existingId rescheduling the habit by its new interval.
updateHabitRescheduling(st, draft, existingId) ==
  LET index == habitIndex(st.habits, existingId)
      previous == st.habits[index]
      next == [previous EXCEPT
                 !.type = draft.type,
                 !.intervalMinutes = draft.intervalMinutes,
                 !.targetRepetitionsPerDay = draft.targetRepetitionsPerDay,
                 !.expectedDurationMinutes = draft.expectedDurationMinutes,
                 !.dueAt = previous.createdAt
                             + draft.intervalMinutes * MsPerMinute]
  IN IF index = 0
     THEN Outcome(st, "NotFound", <<>>)
     ELSE Outcome([st EXCEPT !.habits[index] = next], "ok", <<next>>)

\* upsertHabit with existingId: the draft's fields replace the habit's, in
\* place; the search covers archived habits too.
updateHabit(st, draft, existingId) ==
  LET index == habitIndex(st.habits, existingId)
      previous == st.habits[index]
      next == [previous EXCEPT
                 !.type = draft.type,
                 !.intervalMinutes = draft.intervalMinutes,
                 !.targetRepetitionsPerDay = draft.targetRepetitionsPerDay,
                 !.expectedDurationMinutes = draft.expectedDurationMinutes]
  IN IF index = 0
     THEN Outcome(st, "NotFound", <<>>)
     ELSE Outcome([st EXCEPT !.habits[index] = next], "ok", <<next>>)

\* archiveHabit dropping the archived habit's completion and postpone
\* records along with its sessions.
archiveHabitPurgingLogs(st, habitId) ==
  LET updated == [i \in 1..Len(st.habits) |->
                    IF st.habits[i].id = habitId
                    THEN [st.habits[i] EXCEPT !.archived = TRUE]
                    ELSE st.habits[i]]
      activeSessions == SelectSeq(st.sessions, LAMBDA s : s.habitId # habitId)
  IN Outcome([st EXCEPT
                !.habits = updated,
                !.sessions = activeSessions,
                !.completions =
                   SelectSeq(st.completions, LAMBDA c : c.habitId # habitId),
                !.postpones =
                   SelectSeq(st.postpones, LAMBDA p : p.habitId # habitId)],
             "ok", <<>>)

\* archiveHabit leaving the sessions collection as it was.
archiveHabitKeepingSessions(st, habitId) ==
  LET updated == [i \in 1..Len(st.habits) |->
                    IF st.habits[i].id = habitId
                    THEN [st.habits[i] EXCEPT !.archived = TRUE]
                    ELSE st.habits[i]]
  IN Outcome([st EXCEPT !.habits = updated], "ok", <<>>)

\* archiveHabit: flags every habit carrying the id and drops its sessions;
\* never throws.
archiveHabit(st, habitId) ==
  LET updated == [i \in 1..Len(st.habits) |->
                    IF st.habits[i].id = habitId
                    THEN [st.habits[i] EXCEPT !.archived = TRUE]
                    ELSE st.habits[i]]
      activeSessions == SelectSeq(st.sessions, LAMBDA s : s.habitId # habitId)
  IN Outcome([st EXCEPT !.habits = updated, !.sessions = activeSessions],
             "ok", <<>>)

\* startHabitTimer restarting the clock of an existing session.
startHabitTimerRestart(st, habitId, t, uid) ==
  LET index == sessionIndex(st.sessions, habitId)
      session == [id |-> uid, habitId |-> habitId, startedAt |-> t]
      restarted == [st.sessions[index] EXCEPT !.startedAt = t]
  IN IF index # 0
     THEN Outcome([st EXCEPT !.sessions[index] = restarted], "ok",
                  <<restarted>>)
     ELSE Outcome([st EXCEPT !.sessions = Append(st.sessions, session)],
                  "ok", <<session>>)

\* startHabitTimer pushing a new session whether or not one exists.
startHabitTimerAlways(st, habitId, t, uid) ==
  LET session == [id |-> uid, habitId |-> habitId, startedAt |-> t]
  IN Outcome([st EXCEPT !.sessions = Append(st.sessions, session)],
             "ok", <<session>>)

\* startHabitTimer: the existing session of the habit when there is one,
\* else a new session starting now.  The habits are not consulted.
startHabitTimer(st, habitId, t, uid) ==
  LET index == sessionIndex(st.sessions, habitId)
      session == [id |-> uid, habitId |-> habitId, startedAt |-> t]
  IN IF index # 0
     THEN Outcome(st, "ok", <<st.sessions[index]>>)
     ELSE Outcome([st EXCEPT !.sessions = Append(st.sessions, session)],
                  "ok", <<session>>)

\* completeHabit's new dueAt taken from the previous dueAt instead of now.
completedDueAtFromDue(habit, t) ==
  habit.dueAt + habit.intervalMinutes * MsPerMinute

\* The dueAt completeHabit stores: one interval after the completion time.
completedDueAt(habit, t) == t + habit.intervalMinutes * MsPerMinute

\* completeHabit leaving the sessions collection as it found it.
completeHabitKeepingSessions(st, habitId, durationSeconds, source, t, uid) ==
  LET index == habitIndex(st.habits, habitId)
      habit == st.habits[index]
      completion == [id |-> uid,
                     habitId |-> habitId,
                     completedAt |-> t,
                     durationSeconds |->
                       Max(0, IF durationSeconds = <<>> THEN 0
                              ELSE durationSeconds[1]),
                     source |-> IF source = <<>> THEN "manual" ELSE source[1]]
  IN IF index = 0
     THEN Outcome(st, "NotFound", <<>>)
     ELSE Outcome(
            [st EXCEPT
               !.completions = Append(st.completions, completion),
               !.habits[index] =
                  [habit EXCEPT
                     !.lastCompletedAt = <<completion.completedAt>>,
                     !.lastReminderAt = <<>>,
                     !.dueAt = completedDueAt(habit, t)]],
            "ok", <<completion>>)

\* completeHabit: appends a completion, reschedules the habit one interval
\* from now, clears its reminder mark and drops its sessions.  The search
\* covers archived habits too.
\* durationSeconds is absent or a whole number of seconds (secondsBetween
\* floors), so Math.floor leaves it as it is.
completeHabit(st, habitId, durationSeconds, source, t, uid) ==
  LET index == habitIndex(st.habits, habitId)
      habit == st.habits[index]
      completion == [id |-> uid,
                     habitId |-> habitId,
                     completedAt |-> t,
                     durationSeconds |->
                       Max(0, IF durationSeconds = <<>> THEN 0
                              ELSE durationSeconds[1]),
                     source |-> IF source = <<>> THEN "manual" ELSE source[1]]
      remainingSessions == SelectSeq(st.sessions, LAMBDA s : s.habitId # habitId)
  IN IF index = 0
     THEN Outcome(st, "NotFound", <<>>)
     ELSE Outcome(
            [st EXCEPT
               !.completions = Append(st.completions, completion),
               !.habits[index] =
                  [habit EXCEPT
                     !.lastCompletedAt = <<completion.completedAt>>,
                     !.lastReminderAt = <<>>,
                     !.dueAt = completedDueAt(habit, t)],
               !.sessions = remainingSessions],
            "ok", <<completion>>)

\* stopHabitTimer completing the habit even when it has no session.
stopHabitTimerLenient(st, habitId, t, uid) ==
  LET index == sessionIndex(st.sessions, habitId)
      session == st.sessions[index]
      remaining == SelectSeq(st.sessions, LAMBDA s : s.id # session.id)
  IN IF index = 0
     THEN completeHabit(st, habitId, <<0>>, <<"timer">>, t, uid)
     ELSE completeHabit([st EXCEPT !.sessions = remaining], habitId,
                        <<secondsBetween(session.startedAt, t)>>, <<"timer">>,
                        t, uid)

\* stopHabitTimer: throws when the habit has no session; otherwise writes
\* the sessions without it and then completes the habit with the elapsed
\* whole seconds.  The write is not undone when completeHabit throws.
stopHabitTimer(st, habitId, t, uid) ==
  LET index == sessionIndex(st.sessions, habitId)
      session == st.sessions[index]
      remaining == SelectSeq(st.sessions, LAMBDA s : s.id # session.id)
  IN IF index = 0
     THEN Outcome(st, "NoActiveTimer", <<>>)
     ELSE completeHabit([st EXCEPT !.sessions = remaining], habitId,
                        <<secondsBetween(session.startedAt, t)>>, <<"timer">>,
                        t, uid)

\* postponeHabit's base always now, even when the habit is not yet due.
baseTimeNow(current, t) == t

\* postponeHabit's base always the current dueAt, however long past.
baseTimeFromDue(current, t) == current.dueAt

\* The time postponeHabit counts from: the later of the current dueAt and
\* now.
baseTime(current, t) == IF current.dueAt > t THEN current.dueAt ELSE t

\* postponeHabit: pushes dueAt by at least one minute from the later of the
\* current dueAt and now, logs the postpone and clears the reminder mark.
\* minutes is a whole number here, so Math.floor leaves it as it is.
postponeHabit(st, habitId, minutes, t, uid) ==
  LET safeMinutes == Max(1, minutes)
      index == habitIndex(st.habits, habitId)
      current == st.habits[index]
      nextDueAt == baseTime(current, t) + safeMinutes * MsPerMinute
      postponed == [id |-> uid, habitId |-> habitId, postponedAt |-> t,
                    minutes |-> safeMinutes]
      updated == [current EXCEPT !.dueAt = nextDueAt, !.lastReminderAt = <<>>]
  IN IF index = 0
     THEN Outcome(st, "NotFound", <<>>)
     ELSE Outcome([st EXCEPT !.habits[index] = updated,
                             !.postpones = Append(st.postpones, postponed)],
                  "ok", <<updated>>)

\* setHabitLastReminder: records the reminder time; silent when the id is
\* absent.
setHabitLastReminder(st, habitId, at) ==
  LET index == habitIndex(st.habits, habitId)
  IN IF index = 0
     THEN Outcome(st, "ok", <<>>)
     ELSE Outcome([st EXCEPT !.habits[index].lastReminderAt = <<at>>],
                  "ok", <<>>)

\* hs.sort((a, b) => a.dueAt - b.dueAt): the habits by ascending dueAt,
\* habits of equal dueAt in the order they had (the sort is stable).  The
\* habit at index i goes behind the habits that are due earlier and those
\* of equal dueAt that stood before it.
sortByDueAt(hs) ==
  LET place(i) ==
        1 + Cardinality({j \in 1..Len(hs) :
                           \/ hs[j].dueAt < hs[i].dueAt
                           \/ hs[j].dueAt = hs[i].dueAt /\ j < i})
  IN [p \in 1..Len(hs) |-> hs[CHOOSE i \in 1..Len(hs) : place(i) = p]]

\* listHabits: the stored habits, without the archived ones unless asked
\* for, by ascending dueAt.
listHabits(hs, includeArchived) ==
  LET filtered == IF includeArchived
                  THEN hs
                  ELSE SelectSeq(hs, LAMBDA h : ~h.archived)
  IN sortByDueAt(filtered)

\* Number.parseInt(raw, 10) for the preference texts of the model; <<>>
\* stands for NaN.
parseInt(raw) ==
  CASE raw = "0" -> <<0>>
    [] raw = "1" -> <<1>>
    [] raw = "2" -> <<2>>
    [] OTHER -> <<>>

\* safeInteger: the parsed preference, or the fallback when it is not a
\* positive number.
safeInteger(raw, fallback) ==
  LET parsed == parseInt(raw)
  IN IF parsed = <<>> \/ parsed[1] <= 0 THEN fallback ELSE parsed[1]

\* shouldNotify without the throttle: every due habit qualifies.
shouldNotifyUnthrottled(habit, t, throttleMinutes) == habit.dueAt <= t

\* shouldNotify without the test that the habit is due.
shouldNotifyBeforeDue(habit, t, throttleMinutes) ==
  IF habit.lastReminderAt = <<>>
  THEN TRUE
  ELSE minutesBetween(habit.lastReminderAt[1], t) >= throttleMinutes

\* shouldNotify: the habit is due and was never reminded, or was reminded
\* at least throttleMinutes whole minutes ago.
shouldNotify(habit, t, throttleMinutes) ==
  IF habit.dueAt > t
  THEN FALSE
  ELSE IF habit.lastReminderAt = <<>>
       THEN TRUE
       ELSE minutesBetween(habit.lastReminderAt[1], t) >= throttleMinutes

\* The habits a run of the background command may remind, earliest due
\* first: not archived, no timer running, shouldNotify.
candidatesOf(st, t, throttleMinutes) ==
  LET listed == listHabits(st.habits, FALSE)
      runningHabits == {st.sessions[i].habitId : i \in 1..Len(st.sessions)}
      idle == SelectSeq(listed, LAMBDA h : h.id \notin runningHabits)
  IN sortByDueAt(SelectSeq(idle, LAMBDA h : shouldNotify(h, t, throttleMinutes)))

\* background-reminders Command run at time t: marks the first candidate
\* as reminded at t and shows its toast; does nothing without a candidate.
Command(st, prefs, t) ==
  LET reminderThrottleMinutes ==
        safeInteger(prefs.reminderThrottleMinutes, DefaultThrottleMinutes)
      candidates == candidatesOf(st, t, reminderThrottleMinutes)
  IN IF candidates = <<>>
     THEN Outcome(st, "ok", <<>>)
     ELSE Outcome(setHabitLastReminder(st, candidates[1].id, t).st, "ok",
                  <<candidates[1]>>)

\* ------------------------------------------------------------ the machine
\* Ids a caller can name: those of the stored habits and one unknown id.
CallIds == {habits[i].id : i \in 1..Len(habits)} \cup {UnknownId}

EmptyStore == [habits |-> <<>>, sessions |-> <<>>, completions |-> <<>>,
               postpones |-> <<>>]

\* No call is running.
Idle == [op |-> "idle", id |-> UnknownId, arg |-> <<>>, res |-> "ok",
         ret |-> <<>>, pre |-> EmptyStore, preReturned |-> {}]

\* The record of a call that has run: what was called, with which id and
\* argument, how it ended, what it returned, and the collections and the
\* handed-out sessions as they were before it.
Called(op, id, arg, out) ==
  [op |-> op, id |-> id, arg |-> arg, res |-> out.res, ret |-> out.ret,
   pre |-> Store, preReturned |-> returned]

\* Writes an outcome's collections back to the store.
Commit(out) ==
  /\ habits' = out.st.habits
  /\ sessions' = out.st.sessions
  /\ completions' = out.st.completions
  /\ postpones' = out.st.postpones

\* Sessions handed out by startHabitTimer, minus those of a habit.
Forget(habitId) == {s \in returned : s.habitId # habitId}

Init ==
  /\ habits = <<>>
  /\ sessions = <<>>
  /\ completions = <<>>
  /\ postpones = <<>>
  /\ now = 0
  /\ nextUid = 1
  /\ returned = {}
  /\ call = Idle
  /\ preferences = UnsetPreferences

\* The wall clock moves on between calls.
Tick ==
  \E d \in TickSteps :
    /\ call = Idle
    /\ now + d <= MaxNow
    /\ now' = now + d
    /\ UNCHANGED <<habits, sessions, completions, postpones, nextUid,
                   returned, call, preferences>>

\* The caller takes the outcome; the next command may run.
Return ==
  /\ call # Idle
  /\ call' = Idle
  /\ UNCHANGED <<habits, sessions, completions, postpones, now, nextUid,
                 returned, preferences>>

\* create with both clock readings in the same millisecond.
Create ==
  \E draft \in Drafts :
    LET out == createHabit(Store, draft, now, now, nextUid) IN
    /\ call = Idle
    /\ nextUid <= MaxUid
    /\ Len(habits) < MaxHabits
    /\ Commit(out)
    /\ nextUid' = nextUid + 1
    /\ call' = Called("create", nextUid, <<draft>>, out)
    /\ UNCHANGED <<now, returned, preferences>>

Update ==
  \E id \in CallIds, draft \in Drafts :
    LET out == updateHabit(Store, draft, id) IN
    /\ call = Idle
    /\ Commit(out)
    /\ call' = Called("update", id, <<draft>>, out)
    /\ UNCHANGED <<now, nextUid, returned, preferences>>

Archive ==
  \E id \in CallIds :
    LET out == archiveHabit(Store, id) IN
    /\ call = Idle
    /\ Commit(out)
    /\ returned' = Forget(id)
    /\ call' = Called("archive", id, <<>>, out)
    /\ UNCHANGED <<now, nextUid, preferences>>

StartTimer ==
  \E id \in CallIds :
    LET out == startHabitTimer(Store, id, now, nextUid) IN
    /\ call = Idle
    /\ out.st = Store \/ nextUid <= MaxUid
    /\ Commit(out)
    /\ nextUid' = IF out.st = Store THEN nextUid ELSE nextUid + 1
    /\ returned' = Forget(id) \cup {out.ret[1]}
    /\ call' = Called("startTimer", id, <<>>, out)
    /\ UNCHANGED <<now, preferences>>

StopTimer ==
  \E id \in CallIds :
    LET out == stopHabitTimer(Store, id, now, nextUid) IN
    /\ call = Idle
    /\ out.res # "ok" \/ nextUid <= MaxUid
    /\ Commit(out)
    /\ nextUid' = IF out.res = "ok" THEN nextUid + 1 ELSE nextUid
    /\ returned' = Forget(id)
    /\ call' = Called("stopTimer", id, <<>>, out)
    /\ UNCHANGED <<now, preferences>>

Complete ==
  \E id \in CallIds :
    LET out == completeHabit(Store, id, <<>>, <<"manual">>, now, nextUid) IN
    /\ call = Idle
    /\ out.res # "ok" \/ nextUid <= MaxUid
    /\ Commit(out)
    /\ nextUid' = IF out.res = "ok" THEN nextUid + 1 ELSE nextUid
    /\ returned' = Forget(id)
    /\ call' = Called("complete", id, <<>>, out)
    /\ UNCHANGED <<now, preferences>>

Postpone ==
  \E id \in CallIds, m \in PostponeMinutes :
    LET out == postponeHabit(Store, id, m, now, nextUid) IN
    /\ call = Idle
    /\ out.res # "ok" \/ nextUid <= MaxUid
    /\ Commit(out)
    /\ nextUid' = IF out.res = "ok" THEN nextUid + 1 ELSE nextUid
    /\ call' = Called("postpone", id, <<m>>, out)
    /\ UNCHANGED <<now, returned, preferences>>

MarkReminded ==
  \E id \in CallIds :
    LET out == setHabitLastReminder(Store, id, now) IN
    /\ call = Idle
    /\ Commit(out)
    /\ call' = Called("markReminded", id, <<now>>, out)
    /\ UNCHANGED <<now, nextUid, returned, preferences>>

Next ==
  \/ Tick
  \/ Return
  \/ Create
  \/ Update
  \/ Archive
  \/ StartTimer
  \/ StopTimer
  \/ Complete
  \/ Postpone
  \/ MarkReminded

Spec == Init /\ [][Next]_vars

\* create with the clock read twice, as the code does: once for createdAt
\* and once more for dueAt.
CreateLagged ==
  \E draft \in Drafts, lag \in ClockLags :
    LET out == createHabit(Store, draft, now, now + lag, nextUid) IN
    /\ call = Idle
    /\ nextUid <= MaxUid
    /\ Len(habits) < MaxHabits
    /\ now + lag <= MaxNow
    /\ Commit(out)
    /\ now' = now + lag
    /\ nextUid' = nextUid + 1
    /\ call' = Called("create", nextUid, <<draft>>, out)
    /\ UNCHANGED <<returned, preferences>>

NextCreate ==
  \/ Tick
  \/ Return
  \/ CreateLagged
  \/ Archive
  \/ Postpone

\* Creating, postponing, archiving and listing habits, with every clock
\* reading of a create modelled.
SpecCreate == Init /\ [][NextCreate]_vars

\* ---------------------------------------------------------------- claims
\* In the state a call of op leaves: call names it, the store holds what
\* it wrote, call.pre what it found, and now is the time it ran at.
IsCall(op) == call.op = op

HasHabit(hs, id) == \E i \in 1..Len(hs) : hs[i].id = id

HabitById(hs, id) == hs[habitIndex(hs, id)]

HasSession(ss, id) == \E i \in 1..Len(ss) : ss[i].habitId = id

SessionOf(ss, id) == ss[sessionIndex(ss, id)]

\* C1: a successful complete(id), direct or through stopTimer, appends one
\* completion record and leaves the habit's dueAt at exactly that record's
\* completedAt plus intervalMinutes, whatever the dueAt was before.
C1_CompleteSetsDueAt ==
  (IsCall("complete") \/ IsCall("stopTimer")) /\ call.res = "ok" =>
    /\ Len(completions) = Len(call.pre.completions) + 1
    /\ LET c == completions[Len(completions)]
           h == HabitById(habits, call.id)
       IN /\ c.habitId = call.id
          /\ c.completedAt = now
          /\ h.dueAt = c.completedAt + h.intervalMinutes * MsPerMinute

\* C1 witness: a habit that was overdue by more than a second has been
\* completed and is due one interval from now.
C1_Witness ==
  /\ IsCall("complete")
  /\ call.res = "ok"
  /\ LET old == HabitById(call.pre.habits, call.id)
         h == HabitById(habits, call.id)
     IN /\ old.dueAt + MsPerSecond < now
        /\ h.intervalMinutes = 1
        /\ h.dueAt = now + MsPerMinute

\* C2: postpone(id, m) with m >= 1 sets dueAt to max(old dueAt, now) + m
\* minutes: old dueAt + m when the habit is not yet due, now + m when it is
\* overdue.
C2_PostponeFromLater ==
  IsCall("postpone") /\ call.res = "ok" /\ call.arg[1] >= 1 =>
    LET old == HabitById(call.pre.habits, call.id).dueAt
        new == HabitById(habits, call.id).dueAt
        m == call.arg[1]
    IN /\ new = Max(old, now) + m * MsPerMinute
       /\ (old > now => new = old + m * MsPerMinute)
       /\ (old <= now => new = now + m * MsPerMinute)

\* C2 witness: an overdue habit has been postponed by two minutes and is
\* due two minutes from now.
C2_Witness ==
  /\ IsCall("postpone")
  /\ call.res = "ok"
  /\ call.arg[1] = 2
  /\ HabitById(call.pre.habits, call.id).dueAt < now
  /\ HabitById(habits, call.id).dueAt = now + 2 * MsPerMinute

\* C3: the timer-session collection never holds two sessions of one
\* habitId.
C3_OneSessionPerHabit ==
  \A i, j \in 1..Len(sessions) :
    sessions[i].habitId = sessions[j].habitId => i = j

\* C3 witness: startTimer was called for a habit whose session was already
\* running while another timer runs too.
C3_Witness ==
  /\ IsCall("startTimer")
  /\ HasSession(call.pre.sessions, call.id)
  /\ Len(sessions) = 2

\* C4: startTimer(id), called again with no stopTimer, complete or archive
\* of that habit since the last startTimer(id), returns the session that
\* call returned and leaves the session collection unchanged.
C4_StartTimerIdempotent ==
  IsCall("startTimer") /\ (\E s \in call.preReturned : s.habitId = call.id) =>
    /\ call.ret[1] \in call.preReturned
    /\ call.ret[1].habitId = call.id
    /\ sessions = call.pre.sessions

\* C4 witness: a second startTimer, after the clock moved, returned the
\* session the first call handed out.
C4_Witness ==
  /\ IsCall("startTimer")
  /\ call.ret[1] \in call.preReturned
  /\ call.ret[1].startedAt < now
  /\ HasHabit(habits, call.id)

\* C5: stopTimer(id) on a stored habit with an active session removes the
\* session and appends exactly one completion record of the habit, with
\* source timer and durationSeconds the whole seconds from the session's
\* startedAt to now.
C5_StopTimerRecordsElapsed ==
  IsCall("stopTimer") /\ HasHabit(call.pre.habits, call.id)
    /\ HasSession(call.pre.sessions, call.id) =>
    /\ call.res = "ok"
    /\ ~HasSession(sessions, call.id)
    /\ Len(completions) = Len(call.pre.completions) + 1
    /\ SubSeq(completions, 1, Len(call.pre.completions)) = call.pre.completions
    /\ LET c == completions[Len(completions)]
           elapsed == now - SessionOf(call.pre.sessions, call.id).startedAt
       IN /\ c.habitId = call.id
          /\ c.source = "timer"
          /\ c.durationSeconds >= 0
          /\ c.durationSeconds * MsPerSecond <= elapsed
          /\ elapsed < (c.durationSeconds + 1) * MsPerSecond

\* C5 witness: a timer stopped a minute and a half second after it was
\* started produced a completion of 61 whole seconds.
C5_Witness ==
  /\ IsCall("stopTimer")
  /\ call.res = "ok"
  /\ now - SessionOf(call.pre.sessions, call.id).startedAt = 61500
  /\ call.ret[1].durationSeconds = 61

\* C6: stopTimer(id) with no session of id fails with NoActiveTimer and
\* leaves the four collections as they were.
C6_StopWithoutSessionFails ==
  IsCall("stopTimer") /\ ~HasSession(call.pre.sessions, call.id) =>
    /\ call.res = "NoActiveTimer"
    /\ Store = call.pre

\* C6 witness: stopTimer failed for a stored habit while another timer
\* was running.
C6_Witness ==
  /\ IsCall("stopTimer")
  /\ call.res = "NoActiveTimer"
  /\ HasHabit(habits, call.id)
  /\ Len(sessions) = 1

\* C7: archive(id) flags the habit as archived, removes its timer session
\* and appends no completion; archive(id) applied once more to the
\* collections it leaves changes none of them.
C7_ArchiveDiscardsAndIsIdempotent ==
  IsCall("archive") =>
    /\ \A i \in 1..Len(habits) : habits[i].id = call.id => habits[i].archived
    /\ ~HasSession(sessions, call.id)
    /\ completions = call.pre.completions
    /\ postpones = call.pre.postpones
    /\ archiveHabit(Store, call.id).st = Store

\* C7 witness: a habit whose timer was running has been archived; the
\* session is gone and no completion was recorded.
C7_Witness ==
  /\ IsCall("archive")
  /\ HasHabit(habits, call.id)
  /\ ~HabitById(call.pre.habits, call.id).archived
  /\ HabitById(habits, call.id).archived
  /\ HasSession(call.pre.sessions, call.id)
  /\ ~HasSession(sessions, call.id)
  /\ completions = <<>>

\* C8 as claimed: complete(id) and postpone(id, m) on an archived habit
\* fail with NotFound and leave the habit and both logs unchanged.
C8_ArchivedIsNotFound ==
  (IsCall("complete") \/ IsCall("postpone"))
    /\ HasHabit(call.pre.habits, call.id)
    /\ HabitById(call.pre.habits, call.id).archived =>
    /\ call.res = "NotFound"
    /\ habits = call.pre.habits
    /\ completions = call.pre.completions
    /\ postpones = call.pre.postpones

\* C9 as claimed: startTimer(id) with an id that is not the id of a
\* non-archived habit fails with NotFound and creates no session.
C9_StartTimerNotFound ==
  IsCall("startTimer")
    /\ ~(\E i \in 1..Len(call.pre.habits) :
           call.pre.habits[i].id = call.id /\ ~call.pre.habits[i].archived) =>
    /\ call.res = "NotFound"
    /\ sessions = call.pre.sessions

\* C10 as claimed: every successful complete or postpone leaves the habit's
\* dueAt strictly later than it was.
C10_AlwaysAdvances ==
  (IsCall("complete") \/ IsCall("stopTimer") \/ IsCall("postpone"))
    /\ call.res = "ok" =>
    HabitById(habits, call.id).dueAt > HabitById(call.pre.habits, call.id).dueAt

\* C10 amended: every successful postpone leaves dueAt strictly later than
\* it was and than now; a successful complete leaves dueAt strictly later
\* than it was exactly when the old dueAt was earlier than the completion
\* time plus intervalMinutes, and so always when the habit was due
\* (dueAt <= now) and its intervalMinutes is at least 1.
C10_AdvancesUnlessPushedBeyond ==
  (IsCall("complete") \/ IsCall("stopTimer") \/ IsCall("postpone"))
    /\ call.res = "ok" =>
    LET old == HabitById(call.pre.habits, call.id)
        new == HabitById(habits, call.id)
    IN IF IsCall("postpone")
       THEN new.dueAt > old.dueAt /\ new.dueAt > now
       ELSE /\ (new.dueAt > old.dueAt) <=>
                 (old.dueAt < now + old.intervalMinutes * MsPerMinute)
            /\ (old.dueAt <= now /\ old.intervalMinutes >= 1 =>
                  new.dueAt > old.dueAt)

\* C10 witness: a habit with a one-minute interval, postponed to more than
\* a minute from now, was completed, which left its dueAt earlier than it
\* was.
C10_Witness ==
  /\ IsCall("complete")
  /\ call.res = "ok"
  /\ LET old == HabitById(call.pre.habits, call.id)
         new == HabitById(habits, call.id)
     IN /\ old.intervalMinutes = 1
        /\ \E i \in 1..Len(postpones) : postpones[i].habitId = call.id
        /\ new.dueAt < old.dueAt

\* Whether log before is a prefix of log after.
IsPrefix(before, after) ==
  /\ Len(before) <= Len(after)
  /\ SubSeq(after, 1, Len(before)) = before

\* The scheduler starts the background command a minute after the last
\* run; the command reads the clock and reminds at most one habit.
BackgroundRun ==
  LET t == now + MsPerMinute
      out == Command(Store, preferences, t) IN
  /\ call = Idle
  /\ t <= MaxRuns * MsPerMinute
  /\ Commit(out)
  /\ now' = t
  /\ call' = Called("remind",
                    IF out.ret = <<>> THEN UnknownId ELSE out.ret[1].id,
                    <<>>, out)
  /\ UNCHANGED <<nextUid, returned, preferences>>

InitReminders ==
  /\ habits = <<>>
  /\ sessions = <<>>
  /\ completions = <<>>
  /\ postpones = <<>>
  /\ now = 0
  /\ nextUid = 1
  /\ returned = {}
  /\ call = Idle
  /\ preferences \in [reminderThrottleMinutes : ThrottleTexts]

NextReminders ==
  \/ BackgroundRun
  \/ Return
  \/ Create
  \/ Archive
  \/ StartTimer
  \/ Complete
  \/ Postpone

\* The background command running once a minute while the user creates,
\* archives, times, completes and postpones habits.
SpecReminders == InitReminders /\ [][NextReminders]_vars

\* C11: the completion and postpone logs are append-only: whatever engine
\* call has run (archive included), each log as it was before the call is
\* a prefix of the log after it, so no record is removed or altered.
C11_LogsAppendOnly ==
  ~IsCall("idle") =>
    /\ IsPrefix(call.pre.completions, completions)
    /\ IsPrefix(call.pre.postpones, postpones)

\* C11 witness: a habit with one completion and one postpone on record has
\* been archived and both records are still there.
C11_Witness ==
  /\ IsCall("archive")
  /\ HasHabit(call.pre.habits, call.id)
  /\ ~HabitById(call.pre.habits, call.id).archived
  /\ \E i \in 1..Len(completions) : completions[i].habitId = call.id
  /\ \E i \in 1..Len(postpones) : postpones[i].habitId = call.id

\* C12: update(id, draft) on a stored habit, archived or not, succeeds,
\* takes the draft's fields and leaves the habit's id, createdAt, dueAt,
\* lastCompletedAt, lastReminderAt and archived flag, every other habit and
\* the session, completion and postpone collections as they were; with an
\* id no habit carries it fails with NotFound and changes nothing.
C12_UpdateFrame ==
  IsCall("update") =>
    IF HasHabit(call.pre.habits, call.id)
    THEN LET index == habitIndex(call.pre.habits, call.id)
             old == call.pre.habits[index]
             new == habits[index]
             draft == call.arg[1]
         IN /\ call.res = "ok"
            /\ Len(habits) = Len(call.pre.habits)
            /\ \A i \in 1..Len(habits) :
                 i # index => habits[i] = call.pre.habits[i]
            /\ new.id = old.id
            /\ new.createdAt = old.createdAt
            /\ new.dueAt = old.dueAt
            /\ new.lastCompletedAt = old.lastCompletedAt
            /\ new.lastReminderAt = old.lastReminderAt
            /\ new.archived = old.archived
            /\ new.type = draft.type
            /\ new.intervalMinutes = draft.intervalMinutes
            /\ new.targetRepetitionsPerDay = draft.targetRepetitionsPerDay
            /\ new.expectedDurationMinutes = draft.expectedDurationMinutes
            /\ sessions = call.pre.sessions
            /\ completions = call.pre.completions
            /\ postpones = call.pre.postpones
    ELSE /\ call.res = "NotFound"
         /\ Store = call.pre

\* C12 witness: an archived habit that had been completed was updated to
\* another interval while a second habit is stored.
C12_Witness ==
  /\ IsCall("update")
  /\ call.res = "ok"
  /\ Len(habits) = 2
  /\ LET old == HabitById(call.pre.habits, call.id)
         new == HabitById(habits, call.id)
     IN /\ old.archived
        /\ old.lastCompletedAt # <<>>
        /\ new.intervalMinutes # old.intervalMinutes

\* C13 as claimed: after create(draft) the list of non-archived habits
\* holds the new habit exactly once, with archived false and dueAt equal
\* to createdAt plus intervalMinutes, and is ordered by ascending dueAt.
C13_CreateListsNewHabit ==
  IsCall("create") /\ call.res = "ok" =>
    LET listed == listHabits(habits, FALSE)
        at == {i \in 1..Len(listed) : listed[i].id = call.id}
    IN /\ Cardinality(at) = 1
       /\ \A i \in at :
            /\ listed[i] = call.ret[1]
            /\ ~listed[i].archived
            /\ listed[i].dueAt =
                 listed[i].createdAt + listed[i].intervalMinutes * MsPerMinute
       /\ \A i, j \in 1..Len(listed) :
            i < j => listed[i].dueAt <= listed[j].dueAt

\* C14 as claimed: whatever draft create or update was given, the habit it
\* stored has intervalMinutes >= 1, targetRepetitionsPerDay >= 1 and
\* expectedDurationMinutes unset or >= 1.
C14_StoredNumbersClamped ==
  (IsCall("create") \/ IsCall("update")) /\ call.res = "ok" =>
    LET h == HabitById(habits, call.id)
    IN /\ h.intervalMinutes >= 1
       /\ h.targetRepetitionsPerDay >= 1
       /\ (h.expectedDurationMinutes = <<>>
             \/ h.expectedDurationMinutes[1] >= 1)

\* C15 as claimed: right after a successful complete or postpone the
\* habit's dueAt is strictly later than the time of the call, whatever
\* habit the engine holds, and a postpone has stored a record whose
\* minutes is at least 1.
C15_ScheduledAfterCompleteOrPostpone ==
  (IsCall("complete") \/ IsCall("stopTimer") \/ IsCall("postpone"))
    /\ call.res = "ok" =>
    /\ HabitById(habits, call.id).dueAt > now
    /\ (IsCall("postpone") =>
          /\ Len(postpones) = Len(call.pre.postpones) + 1
          /\ postpones[Len(postpones)].habitId = call.id
          /\ postpones[Len(postpones)].minutes >= 1)

\* C19 as claimed: whenever create, update, archive, startTimer, stopTimer,
\* complete or postpone ends with an error, the four collections are
\* exactly as they were before the call.
C19_ErrorsChangeNothing ==
  call.op \in {"create", "update", "archive", "startTimer", "stopTimer",
               "complete", "postpone"}
    /\ call.res # "ok" =>
    Store = call.pre

\* The throttle, in minutes, the background command works with.
Throttle ==
  safeInteger(preferences.reminderThrottleMinutes, DefaultThrottleMinutes)

\* Whether a run at the current time, on the collections the call found,
\* may remind habit h: not archived, due, no timer running, and never
\* reminded or reminded at least the throttle ago.
Remindable(h) ==
  /\ ~h.archived
  /\ h.dueAt <= now
  /\ ~HasSession(call.pre.sessions, h.id)
  /\ (h.lastReminderAt = <<>>
        \/ now - h.lastReminderAt[1] >= Throttle * MsPerMinute)

\* C17: a run of the background command reminds at most one habit; the
\* habit it reminds is not archived, is due, has no timer running, passes
\* the throttle and has the earliest dueAt of the habits that do, and only
\* its lastReminderAt changes; a run that finds no such habit changes no
\* collection.
C17_RunRemindsEarliestEligible ==
  IsCall("remind") =>
    LET pre == call.pre.habits
        eligible == {i \in 1..Len(pre) : Remindable(pre[i])}
    IN IF eligible = {}
       THEN call.ret = <<>> /\ Store = call.pre
       ELSE /\ \E i \in eligible :
                 /\ pre[i].id = call.id
                 /\ call.ret = <<pre[i]>>
                 /\ \A j \in eligible : pre[i].dueAt <= pre[j].dueAt
                 /\ habits = [pre EXCEPT ![i].lastReminderAt = <<now>>]
            /\ sessions = call.pre.sessions
            /\ completions = call.pre.completions
            /\ postpones = call.pre.postpones

\* C17 witness: a run reminded one habit and passed over another one
\* that is due but was reminded less than the throttle ago.
C17_Witness ==
  /\ IsCall("remind")
  /\ HasHabit(habits, call.id)
  /\ \E i \in 1..Len(habits) :
       /\ habits[i].id # call.id
       /\ ~habits[i].archived
       /\ habits[i].dueAt <= now
       /\ habits[i].lastReminderAt # <<>>
       /\ ~Remindable(habits[i])

\* C18 as claimed: a run of the background command reminds a habit that
\* still carries its last reminder only when that reminder is at least
\* the throttle old, and reminds every habit that a complete or postpone
\* has cleared and that is due again with no timer running.
C18_ThrottledUnlessCleared ==
  IsCall("remind") =>
    /\ (HasHabit(call.pre.habits, call.id)
          /\ HabitById(call.pre.habits, call.id).lastReminderAt # <<>> =>
          now - HabitById(call.pre.habits, call.id).lastReminderAt[1]
            >= Throttle * MsPerMinute)
    /\ \A i \in 1..Len(call.pre.habits) :
         LET h == call.pre.habits[i]
         IN /\ ~h.archived
            /\ h.dueAt <= now
            /\ ~HasSession(call.pre.sessions, h.id)
            /\ h.lastReminderAt = <<>>
            /\ (h.lastCompletedAt # <<>>
                  \/ \E k \in 1..Len(call.pre.postpones) :
                       call.pre.postpones[k].habitId = h.id)
            => habits[i].lastReminderAt = <<now>>

\* C18 amended: a run reminds a habit that still carries its last
\* reminder only when that reminder is at least the throttle old; a
\* successful complete or postpone clears lastReminderAt, and a run reminds
\* a cleared habit that is due again, not archived and without a timer,
\* however recent its last reminder was, whenever no other remindable
\* habit is due as early (a run reminds one habit only).
C18_ThrottledUnlessClearedAndEarliest ==
  /\ (IsCall("complete") \/ IsCall("stopTimer") \/ IsCall("postpone"))
       /\ call.res = "ok" =>
       HabitById(habits, call.id).lastReminderAt = <<>>
  /\ IsCall("remind") =>
       /\ (HasHabit(call.pre.habits, call.id)
             /\ HabitById(call.pre.habits, call.id).lastReminderAt # <<>> =>
             now - HabitById(call.pre.habits, call.id).lastReminderAt[1]
               >= Throttle * MsPerMinute)
       /\ \A i \in 1..Len(call.pre.habits) :
            LET h == call.pre.habits[i]
            IN /\ ~h.archived
               /\ h.dueAt <= now
               /\ ~HasSession(call.pre.sessions, h.id)
               /\ h.lastReminderAt = <<>>
               /\ (\A j \in 1..Len(call.pre.habits) :
                     j # i /\ Remindable(call.pre.habits[j]) =>
                       h.dueAt < call.pre.habits[j].dueAt)
               => habits[i].lastReminderAt = <<now>>

\* C18 witness: with a throttle of two minutes the only habit, due and
\* reminded at minute one and completed right after, is reminded again by
\* the run at minute two.
C18_Witness ==
  /\ IsCall("remind")
  /\ Throttle = 2
  /\ now = 2 * MsPerMinute
  /\ Len(habits) = 1
  /\ HasHabit(call.pre.habits, call.id)
  /\ LET h == HabitById(call.pre.habits, call.id)
     IN /\ h.createdAt = 0
        /\ h.intervalMinutes = 1
        /\ h.lastCompletedAt = <<MsPerMinute>>
        /\ h.lastReminderAt = <<>>
        /\ HabitById(habits, call.id).lastReminderAt = <<now>>

\* ------------------------------------------------- the unattended system
RECURSIVE withHabits(_)
\* The store after k habits with a one-minute interval were created a
\* second apart, from time 0 on, with ids 1..k.
withHabits(k) ==
  IF k = 0
  THEN EmptyStore
  ELSE createHabit(withHabits(k - 1),
                   CHOOSE d \in Drafts : d.intervalMinutes = 1,
                   (k - 1) * MsPerSecond, (k - 1) * MsPerSecond, k).st

RECURSIVE withArchived(_, _)
\* The store after the habits of ids were archived.
withArchived(st, ids) ==
  IF ids = {}
  THEN st
  ELSE LET id == CHOOSE x \in ids : \A y \in ids : x <= y
       IN withArchived(archiveHabit(st, id).st, ids \ {id})

RECURSIVE withTimers(_, _, _, _)
\* The store after a timer was started at time t for each habit of ids,
\* the sessions taking their ids from uid on.
withTimers(st, ids, t, uid) ==
  IF ids = {}
  THEN st
  ELSE LET id == CHOOSE x \in ids : \A y \in ids : x <= y
       IN withTimers(startHabitTimer(st, id, t, uid).st, ids \ {id}, t,
                     uid + 1)

\* The user has created up to MaxOverdue habits, archived some, started
\* timers for some others, and left; two minutes on every habit is past
\* its dueAt and none was reminded yet.
InitUnattended ==
  \E k \in 1..MaxOverdue :
    \E archived \in SUBSET (1..k) :
      \E timed \in SUBSET ((1..k) \ archived) :
        LET st == withTimers(withArchived(withHabits(k), archived), timed,
                             k * MsPerSecond, k + 1)
        IN /\ habits = st.habits
           /\ sessions = st.sessions
           /\ completions = st.completions
           /\ postpones = st.postpones
           /\ now = 2 * MsPerMinute
           /\ nextUid = k + 1 + Cardinality(timed)
           /\ returned = {}
           /\ call = Idle
           /\ preferences \in [reminderThrottleMinutes : ThrottleTexts]

\* A minute seen from the clock of the next run: a reminder mark is a
\* minute older.  shouldNotify asks of a mark only whether it is at least
\* the throttle old, so a mark is never aged beyond the throttle.
agedByAMinute(h) ==
  IF h.lastReminderAt = <<>>
  THEN h
  ELSE [h EXCEPT !.lastReminderAt =
          <<Max(h.lastReminderAt[1] - MsPerMinute,
                now - Throttle * MsPerMinute)>>]

\* The next run of the background command while the user is away.  Time
\* is kept relative to the run: instead of the clock moving a minute
\* forward, the reminder marks move a minute back.  Command compares
\* stored times with the clock only through dueAt <= now, which stays true
\* of an overdue habit, through the order of the dueAt, which no run
\* changes, and through the age of the reminder marks.
UnattendedRun ==
  \E st \in {[Store EXCEPT
                !.habits = [i \in 1..Len(habits) |->
                              agedByAMinute(habits[i])]]} :
    \E out \in {Command(st, preferences, now)} :
      /\ call = Idle
      /\ Commit(out)
      /\ call' = Called("remind",
                        IF out.ret = <<>> THEN UnknownId ELSE out.ret[1].id,
                        <<>>, out)
      /\ UNCHANGED <<now, nextUid, returned, preferences>>

NextUnattended ==
  \/ UnattendedRun
  \/ Return

\* The background command running every minute, for ever, with the user
\* taking no action: the scheduler keeps starting the command and every
\* run ends.
SpecUnattended ==
  /\ InitUnattended
  /\ [][NextUnattended]_vars
  /\ WF_vars(UnattendedRun)
  /\ WF_vars(Return)

\* Habit id is stored, not archived, past its dueAt and has no timer.
OverdueIdle(id) ==
  /\ HasHabit(habits, id)
  /\ ~HabitById(habits, id).archived
  /\ HabitById(habits, id).dueAt < now
  /\ ~HasSession(sessions, id)

\* C16 as claimed: with the background command running every minute and
\* the user taking no action, every habit that is overdue, not archived
\* and without a timer is eventually reminded, however many other habits
\* are overdue with it.
C16_OverdueEventuallyReminded ==
  \A id \in 1..MaxOverdue :
    OverdueIdle(id) ~> (IsCall("remind") /\ call.id = id)

\* ------------------------------------------------------------ daily score
\* Exact fractions <<numerator, denominator>> in lowest terms, denominator
\* positive.  The quotient of two small integers is rounded by Math.round
\* as its exact value is: a half is a double, and any other quotient is
\* further from a half than a double is from the quotient.
RECURSIVE GCD(_, _)
GCD(a, b) == IF b = 0 THEN a ELSE GCD(b, a % b)

Rat(n, d) ==
  LET g == GCD(IF n < 0 THEN -n ELSE n, d)
  IN <<n \div g, d \div g>>

RatAdd(x, y) == Rat(x[1] * y[2] + y[1] * x[2], x[2] * y[2])

RatSub(x, y) == Rat(x[1] * y[2] - y[1] * x[2], x[2] * y[2])

RatMul(x, y) == Rat(x[1] * y[1], x[2] * y[2])

RatMin(x, y) == IF x[1] * y[2] <= y[1] * x[2] THEN x ELSE y

\* Math.round of a fraction: the nearest integer, halves upwards.
MathRound(x) == (2 * x[1] + x[2]) \div (2 * x[2])

\* ---- JavaScript numbers
\* A number of the score computation is an IEEE 754 double, kept here as
\* <<m, e>> for the value m * 2^e: m a 53-bit natural number written in
\* limbs of LimbBits bits, lowest limb first and no zero limb on top, or
\* <<<<>>, 0>> for zero.  Every number of the computation is non-negative
\* and far from the limits of the exponent.  An operator takes the value
\* of an argument it uses more than once as the one member of a set, so
\* that the argument is computed once.
LimbBits == 13

LimbBase == 2 ^ LimbBits

MantissaBits == 53

RECURSIVE BigOfInt(_)
\* The natural number n in limbs.
BigOfInt(n) ==
  IF n = 0 THEN <<>> ELSE <<n % LimbBase>> \o BigOfInt(n \div LimbBase)

RECURSIVE BigToInt(_)
\* The natural number of the limbs x, which is small.
BigToInt(x) ==
  CHOOSE r \in {IF a = <<>> THEN 0 ELSE a[1] + LimbBase * BigToInt(Tail(a)) :
                  a \in {x}} : TRUE

RECURSIVE BigTrim(_)
\* x without zero limbs on top.
BigTrim(x) ==
  CHOOSE r \in {IF a # <<>> /\ a[Len(a)] = 0
                THEN BigTrim(SubSeq(a, 1, Len(a) - 1))
                ELSE a :
                  a \in {x}} : TRUE

\* The lowest limb of x, and the limbs above it.
LowLimb(x) == IF x = <<>> THEN 0 ELSE x[1]

HighLimbs(x) == IF x = <<>> THEN x ELSE Tail(x)

RECURSIVE BigAddCarry(_, _, _)
BigAddCarry(x, y, carry) ==
  CHOOSE r \in {IF a = <<>> /\ b = <<>>
                THEN IF c = 0 THEN <<>> ELSE <<c>>
                ELSE <<(LowLimb(a) + LowLimb(b) + c) % LimbBase>>
                       \o BigAddCarry(HighLimbs(a), HighLimbs(b),
                                      (LowLimb(a) + LowLimb(b) + c)
                                        \div LimbBase) :
                  a \in {x}, b \in {y}, c \in {carry}} : TRUE

\* x + y
BigAdd(x, y) == BigAddCarry(x, y, 0)

RECURSIVE BigSubBorrow(_, _, _)
BigSubBorrow(x, y, borrow) ==
  CHOOSE r \in {IF a = <<>>
                THEN <<>>
                ELSE <<(a[1] - LowLimb(b) - c) % LimbBase>>
                       \o BigSubBorrow(Tail(a), HighLimbs(b),
                                       IF a[1] - LowLimb(b) - c < 0
                                       THEN 1 ELSE 0) :
                  a \in {x}, b \in {y}, c \in {borrow}} : TRUE

\* x - y, for x >= y
BigSub(x, y) == BigTrim(BigSubBorrow(x, y, 0))

RECURSIVE BigCmpFrom(_, _, _)
BigCmpFrom(x, y, i) ==
  IF i = 0 THEN 0
  ELSE IF x[i] < y[i] THEN -1
  ELSE IF x[i] > y[i] THEN 1
  ELSE BigCmpFrom(x, y, i - 1)

\* -1, 0 or 1 as x is less than, equal to or greater than y
BigCmp(x, y) ==
  CHOOSE r \in {IF Len(a) < Len(b) THEN -1
                ELSE IF Len(a) > Len(b) THEN 1
                ELSE BigCmpFrom(a, b, Len(a)) :
                  a \in {x}, b \in {y}} : TRUE

RECURSIVE BigMulSmallCarry(_, _, _)
BigMulSmallCarry(x, k, carry) ==
  CHOOSE r \in {IF a = <<>>
                THEN BigOfInt(c)
                ELSE <<(a[1] * f + c) % LimbBase>>
                       \o BigMulSmallCarry(Tail(a), f,
                                           (a[1] * f + c) \div LimbBase) :
                  a \in {x}, f \in {k}, c \in {carry}} : TRUE

\* x * k, for a natural number k below 2^17
BigMulSmall(x, k) == BigTrim(BigMulSmallCarry(x, k, 0))

RECURSIVE BigMul(_, _)
\* x * y
BigMul(x, y) ==
  CHOOSE r \in {IF a = <<>> \/ b = <<>>
                THEN <<>>
                ELSE BigAdd(BigMulSmall(a, b[1]),
                            BigTrim(<<0>> \o BigMul(a, Tail(b)))) :
                  a \in {x}, b \in {y}} : TRUE

RECURSIVE BigDivSmallFrom(_, _, _, _)
BigDivSmallFrom(x, d, i, rem) ==
  IF i = 0
  THEN <<<<>>, rem>>
  ELSE CHOOSE r \in {<<rest[1] \o <<(rem * LimbBase + x[i]) \div d>>,
                       rest[2]>> :
                       rest \in {BigDivSmallFrom(
                                   x, d, i - 1,
                                   (rem * LimbBase + x[i]) % d)}} : TRUE

\* <<x \div d, x % d>>, for a positive d below 2^17
BigDivSmall(x, d) ==
  CHOOSE r \in {<<BigTrim(qr[1]), qr[2]>> :
                  qr \in UNION {{BigDivSmallFrom(a, d, Len(a), 0)} :
                                  a \in {x}}} : TRUE

RECURSIVE IntBits(_)
\* The number of binary digits of the natural number n.
IntBits(n) == IF n = 0 THEN 0 ELSE 1 + IntBits(n \div 2)

\* The number of binary digits of x.
BigBits(x) ==
  CHOOSE r \in {IF a = <<>> THEN 0
                ELSE LimbBits * (Len(a) - 1) + IntBits(a[Len(a)]) :
                  a \in {x}} : TRUE

\* x * 2^k
BigShl(x, k) ==
  CHOOSE r \in {IF a = <<>>
                THEN <<>>
                ELSE [i \in 1..(n \div LimbBits) |-> 0]
                       \o BigMulSmall(a, 2 ^ (n % LimbBits)) :
                  a \in {x}, n \in {k}} : TRUE

\* x \div 2^k
BigShr(x, k) ==
  CHOOSE r \in {IF n \div LimbBits >= Len(a)
                THEN <<>>
                ELSE BigDivSmall(SubSeq(a, (n \div LimbBits) + 1, Len(a)),
                                 2 ^ (n % LimbBits))[1] :
                  a \in {x}, n \in {k}} : TRUE

\* The mantissa m with exponent e, m of MantissaBits bits or one more.
NumNormal(m, e) ==
  CHOOSE r \in {IF BigBits(a) > MantissaBits
                THEN <<BigShr(a, 1), e + 1>>
                ELSE <<a, e>> :
                  a \in {m}} : TRUE

\* quot cut to its top MantissaBits bits, q, is rounded upwards: the bits
\* cut off and the remainder rem of the division behind them are more than
\* half a unit of q, or just half and q is odd.
NumRoundsUp(quot, rem, q, t) ==
  \E half \in {BigCmp(BigSub(quot, BigShl(q, t)), BigShl(<<1>>, t - 1))} :
    \/ half = 1
    \/ half = 0 /\ (rem # 0 \/ q[1] % 2 = 1)

\* The double nearest to (quot + rem / d) * 2^e for a quotient quot of more
\* than MantissaBits bits, ties to the even mantissa.
NumRounded(quot, rem, e) ==
  CHOOSE r \in {NumNormal(IF NumRoundsUp(quot, rem, q, t)
                          THEN BigAdd(q, <<1>>) ELSE q,
                          e + t) :
                  q \in {BigShr(quot, BigBits(quot) - MantissaBits)},
                  t \in {BigBits(quot) - MantissaBits}} : TRUE

\* The double nearest to (n / d) * 2^e with n scaled by 2^k for the
\* division.
NumScaled(n, d, e, k) ==
  CHOOSE r \in {NumRounded(qr[1], qr[2], e - k) :
                  qr \in {BigDivSmall(BigShl(n, k), d)}} : TRUE

\* The double nearest to (n / d) * 2^e, ties to the even mantissa: the
\* rounding of every arithmetic operation.  n is in limbs, d a positive
\* integer below 2^17.
NumNearest(n, d, e) ==
  CHOOSE r \in {IF a = <<>>
                THEN <<<<>>, 0>>
                ELSE NumScaled(a, d, e,
                               Max(0, MantissaBits + 2 + IntBits(d)
                                        - BigBits(a))) :
                  a \in {n}} : TRUE

\* The double of the natural number n.
Num(n) == NumNearest(BigOfInt(n), 1, 0)

\* x * y
NumMul(x, y) ==
  CHOOSE r \in {NumNearest(BigMul(a[1], b[1]), 1, a[2] + b[2]) :
                  a \in {x}, b \in {y}} : TRUE

\* x / d, for a positive integer d
NumDiv(x, d) ==
  CHOOSE r \in {NumNearest(a[1], d, a[2]) : a \in {x}} : TRUE

\* The exponent both x and y are whole multiples of.
NumCommon(x, y) == IF x[2] < y[2] THEN x[2] ELSE y[2]

\* x + y
NumAdd(x, y) ==
  CHOOSE r \in {NumNearest(BigAdd(BigShl(a[1], a[2] - NumCommon(a, b)),
                                  BigShl(b[1], b[2] - NumCommon(a, b))),
                           1, NumCommon(a, b)) :
                  a \in {x}, b \in {y}} : TRUE

\* x - y, for x >= y
NumSub(x, y) ==
  CHOOSE r \in {NumNearest(BigSub(BigShl(a[1], a[2] - NumCommon(a, b)),
                                  BigShl(b[1], b[2] - NumCommon(a, b))),
                           1, NumCommon(a, b)) :
                  a \in {x}, b \in {y}} : TRUE

\* x <= y
NumLeq(x, y) ==
  \E a \in {x}, b \in {y} :
    BigCmp(BigShl(a[1], a[2] - NumCommon(a, b)),
           BigShl(b[1], b[2] - NumCommon(a, b))) <= 0

\* Math.min(x, y)
NumMin(x, y) ==
  CHOOSE r \in {IF NumLeq(a, b) THEN a ELSE b : a \in {x}, b \in {y}} : TRUE

\* Math.max(x, y)
NumMax(x, y) ==
  CHOOSE r \in {IF NumLeq(a, b) THEN b ELSE a : a \in {x}, b \in {y}} : TRUE

\* A decimal literal with two places, such as 0.65: the double nearest
\* to hundredths / 100.
Hundredths(hundredths) == NumDiv(Num(hundredths), 100)

\* Math.round(x): the integer nearest to x, halves upwards.
NumRound(x) ==
  CHOOSE r \in {IF a[2] >= 0
                THEN BigToInt(BigShl(a[1], a[2]))
                ELSE BigToInt(BigShr(a[1], -a[2]))
                       + (IF BigCmp(BigSub(a[1],
                                           BigShl(BigShr(a[1], -a[2]),
                                                  -a[2])),
                                    BigShl(<<1>>, (-a[2]) - 1)) >= 0
                          THEN 1 ELSE 0) :
                  a \in {x}} : TRUE

\* score.ts clamp with its default range: the value kept within 0..1.
clamp(value) == NumMax(Num(0), NumMin(Num(1), value))

\* score.ts gradeFromScore
gradeFromScore(score) ==
  IF score >= 95 THEN "S"
  ELSE IF score >= 90 THEN "A+"
  ELSE IF score >= 80 THEN "A"
  ELSE IF score >= 70 THEN "B"
  ELSE IF score >= 60 THEN "C"
  ELSE "D"

\* time.ts startOfDay: the local midnight before t.
startOfDay(t) == t - (t % MsPerDay)

\* score.ts habitScoreBreakdown, given what the maps of computeDailyScore
\* hold for the habit: today's completions, their minutes in total and
\* today's postpones.
habitScoreBreakdown(habit, t, repetitions, durationMinutes, postponeCount) ==
  LET repetitionTarget == Max(1, habit.targetRepetitionsPerDay)
      repetitionProgress == clamp(NumDiv(Num(repetitions), repetitionTarget))
      durationTargetMinutes ==
        IF habit.expectedDurationMinutes # <<>>
             /\ habit.expectedDurationMinutes[1] # 0
        THEN habit.expectedDurationMinutes[1] * repetitionTarget
        ELSE 0
      durationProgress ==
        IF durationTargetMinutes > 0
        THEN clamp(NumDiv(durationMinutes, durationTargetMinutes))
        ELSE repetitionProgress
      isOverdue == habit.dueAt < t
      overdueMinutes ==
        IF isOverdue
        THEN NumMax(Num(0), NumDiv(Num(t - habit.dueAt), MsPerMinute))
        ELSE Num(0)
      postponePenalty ==
        NumMin(Hundredths(20), NumMul(Num(postponeCount), Hundredths(5)))
      overduePenalty ==
        NumMin(Hundredths(25),
               NumMul(NumDiv(overdueMinutes, Max(1, habit.intervalMinutes)),
                      Hundredths(15)))
      rawProgress == NumAdd(NumMul(repetitionProgress, Hundredths(65)),
                            NumMul(durationProgress, Hundredths(35)))
      factor == NumSub(NumSub(Num(1), postponePenalty), overduePenalty)
      score == NumRound(NumMul(clamp(NumMul(rawProgress, factor)), Num(100)))
  IN [habitId |-> habit.id,
      repetitions |-> repetitions,
      repetitionTarget |-> repetitionTarget,
      repetitionProgress |-> repetitionProgress,
      durationMinutes |-> durationMinutes,
      durationTargetMinutes |-> durationTargetMinutes,
      durationProgress |-> durationProgress,
      postpones |-> postponeCount,
      isOverdue |-> isOverdue,
      score |-> score]

RECURSIVE sumDurationMinutes(_)
\* The minutes of the completions cs added up in their order, each
\* durationSeconds / 60 added to the total so far.
sumDurationMinutes(cs) ==
  IF cs = <<>>
  THEN Num(0)
  ELSE NumAdd(sumDurationMinutes(SubSeq(cs, 1, Len(cs) - 1)),
              NumDiv(Num(cs[Len(cs)].durationSeconds), 60))

RECURSIVE sumScores(_)
\* breakdown.reduce((total, item) => total + item.score, 0)
sumScores(breakdown) ==
  IF breakdown = <<>> THEN 0
  ELSE breakdown[1].score + sumScores(Tail(breakdown))

\* The overall score taken as 0 when there is no habit to score.
averageScoreZeroWhenEmpty(breakdown) ==
  IF Len(breakdown) = 0
  THEN 0
  ELSE MathRound(Rat(sumScores(breakdown), Len(breakdown)))

\* The overall score: 100 without habits, else the rounded mean of the
\* habits' scores.
averageScore(breakdown) ==
  IF Len(breakdown) = 0
  THEN 100
  ELSE MathRound(Rat(sumScores(breakdown), Len(breakdown)))

\* The habits computeDailyScore scores: those of listHabits(false).
scoredHabits(st) == listHabits(st.habits, FALSE)

\* score.ts computeDailyScore at time t.
computeDailyScore(st, t) ==
  LET dayStart == startOfDay(t)
      listed == scoredHabits(st)
      todayCompletions ==
        SelectSeq(st.completions,
                  LAMBDA c : c.completedAt >= dayStart /\ c.completedAt <= t)
      todayPostpones ==
        SelectSeq(st.postpones,
                  LAMBDA q : q.postponedAt >= dayStart /\ q.postponedAt <= t)
      completionsOf(id) == SelectSeq(todayCompletions, LAMBDA c : c.habitId = id)
      postponesOf(id) == SelectSeq(todayPostpones, LAMBDA q : q.habitId = id)
      breakdown ==
        [i \in 1..Len(listed) |->
           habitScoreBreakdown(listed[i], t,
                               Len(completionsOf(listed[i].id)),
                               sumDurationMinutes(completionsOf(listed[i].id)),
                               Len(postponesOf(listed[i].id)))]
  IN CHOOSE daily \in
       {[score |-> average,
         grade |-> gradeFromScore(average),
         completedCount |-> Len(todayCompletions),
         totalTrackedMinutes |->
           NumRound(sumDurationMinutes(todayCompletions)),
         dueNowCount |-> Len(SelectSeq(listed, LAMBDA h : h.dueAt <= t)),
         breakdown |-> items] :
          items \in {breakdown},
          average \in {averageScore(breakdown)}} : TRUE

RECURSIVE withCompleted(_, _, _, _)
\* The store after the habits of ids were completed by hand at time t, the
\* completions taking their ids from uid on.
withCompleted(st, ids, t, uid) ==
  IF ids = {}
  THEN st
  ELSE LET id == CHOOSE x \in ids : \A y \in ids : x <= y
       IN withCompleted(completeHabit(st, id, <<>>, <<"manual">>, t, uid).st,
                        ids \ {id}, t, uid + 1)

RECURSIVE withPostponed(_, _, _, _)
\* The store after the habits of ids were postponed by two minutes at
\* time t, the postpones taking their ids from uid on.
withPostponed(st, ids, t, uid) ==
  IF ids = {}
  THEN st
  ELSE LET id == CHOOSE x \in ids : \A y \in ids : x <= y
       IN withPostponed(postponeHabit(st, id, 2, t, uid).st,
                        ids \ {id}, t, uid + 1)

\* The user has created up to MaxHabits habits a second apart, then
\* completed some, postponed some and archived some; the dashboard asks
\* for the score right away or a minute and a half second later.
InitScore ==
  \E k \in 0..MaxHabits :
    \E completed \in SUBSET (1..k), postponed \in SUBSET (1..k),
       archived \in SUBSET (1..k), wait \in {0} \cup TickSteps :
      LET t == k * MsPerSecond
          st == withArchived(
                  withPostponed(
                    withCompleted(withHabits(k), completed, t, k + 1),
                    postponed, t, k + 1 + Cardinality(completed)),
                  archived)
      IN /\ habits = st.habits
         /\ sessions = st.sessions
         /\ completions = st.completions
         /\ postpones = st.postpones
         /\ now = t + wait
         /\ nextUid = k + 1 + Cardinality(completed) + Cardinality(postponed)
         /\ returned = {}
         /\ call = Idle
         /\ preferences = UnsetPreferences

\* The dashboard refreshes: computeDailyScore reads the collections and
\* the clock and writes nothing.
ComputeDailyScore ==
  /\ call = Idle
  /\ call' = Called("score", UnknownId, <<>>,
                    Outcome(Store, "ok", <<computeDailyScore(Store, now)>>))
  /\ UNCHANGED <<habits, sessions, completions, postpones, now, nextUid,
                 returned, preferences>>

NextScore ==
  \/ ComputeDailyScore
  \/ Return

\* computeDailyScore applied to the stores the engine leaves.
SpecScore == InitScore /\ [][NextScore]_vars

\* C20: computeDailyScore returns score 100 and grade S when no habit is
\* left unarchived, whatever the logs hold; otherwise it scores every
\* unarchived habit and returns the mean of those scores rounded to the
\* nearest integer (halves upwards), with the grade of that score.
C20_OverallScoreIsRoundedMean ==
  IsCall("score") =>
    LET result == call.ret[1]
        active == {i \in 1..Len(habits) : ~habits[i].archived}
        n == Len(result.breakdown)
        sum == sumScores(result.breakdown)
    IN IF active = {}
       THEN result.score = 100 /\ result.grade = "S"
       ELSE /\ n = Cardinality(active)
            /\ \A i \in active :
                 \E b \in 1..n : result.breakdown[b].habitId = habits[i].id
            /\ 2 * n * result.score - n <= 2 * sum
            /\ 2 * sum < 2 * n * result.score + n
            /\ result.grade = gradeFromScore(result.score)

\* C20 witness: two unarchived habits score 95 and 0, and the overall
\* score is 48, the mean 47.5 rounded.
C20_Witness ==
  /\ IsCall("score")
  /\ Len(call.ret[1].breakdown) = 2
  /\ {call.ret[1].breakdown[b].score : b \in 1..2} = {0, 95}
  /\ call.ret[1].score = 48

\* C25: after a successful complete(id), called directly or through
\* stopTimer, no session of id exists, the sessions of the other habits
\* are as they were, the habit's lastCompletedAt is the completedAt of the
\* completion just appended and its lastReminderAt is cleared.
C25_CompleteDropsSessionAndMarks ==
  (IsCall("complete") \/ IsCall("stopTimer")) /\ call.res = "ok" =>
    /\ ~HasSession(sessions, call.id)
    /\ sessions = SelectSeq(call.pre.sessions, LAMBDA x : x.habitId # call.id)
    /\ Len(completions) = Len(call.pre.completions) + 1
    /\ completions[Len(completions)] = call.ret[1]
    /\ HabitById(habits, call.id).lastCompletedAt = <<call.ret[1].completedAt>>
    /\ HabitById(habits, call.id).lastReminderAt = <<>>

\* C25 witness: a habit that had been reminded and whose timer was running
\* was completed by hand while the session of another id goes on.
C25_Witness ==
  /\ IsCall("complete")
  /\ call.res = "ok"
  /\ HasSession(call.pre.sessions, call.id)
  /\ HabitById(call.pre.habits, call.id).lastReminderAt # <<>>
  /\ call.ret[1].source = "manual"
  /\ ~HasSession(sessions, call.id)

\* C26: an archived habit stays archived whatever engine call runs, and
\* no archived habit is listed by listHabits(false), scored by
\* computeDailyScore or a candidate of the background command.
C26_ArchivedIsTerminal ==
  /\ \A i \in 1..Len(call.pre.habits) :
       call.pre.habits[i].archived =>
         /\ i <= Len(habits)
         /\ habits[i].id = call.pre.habits[i].id
         /\ habits[i].archived
  /\ \A i \in 1..Len(habits) :
       habits[i].archived =>
         LET id == habits[i].id
             listed == listHabits(habits, FALSE)
             scored == scoredHabits(Store)
             candidates == candidatesOf(Store, now, Throttle)
         IN /\ \A k \in 1..Len(listed) : listed[k].id # id
            /\ \A k \in 1..Len(scored) : scored[k].id # id
            /\ \A k \in 1..Len(candidates) : candidates[k].id # id

\* C26 witness: an archived habit that is due was completed, which the
\* engine accepts, and is still archived, while another habit is listed.
C26_Witness ==
  /\ IsCall("complete")
  /\ call.res = "ok"
  /\ HabitById(call.pre.habits, call.id).archived
  /\ HabitById(call.pre.habits, call.id).dueAt <= now
  /\ HabitById(habits, call.id).archived
  /\ Len(listHabits(habits, FALSE)) = 1

\* C27 as claimed: every timer session's habitId is the id of a stored
\* habit that is not archived.
C27_SessionsReferToActiveHabits ==
  \A k \in 1..Len(sessions) :
    \E i \in 1..Len(habits) :
      habits[i].id = sessions[k].habitId /\ ~habits[i].archived

\* ------------------------------------------------------ relative due text
\* Differences dueAt - now, in ms, the text is asked for: around zero, half
\* a minute, a minute and so on up to two minutes, and beyond an hour on
\* both sides.
DueOffsets ==
  {k * (MsPerMinute \div 4) + j : k \in (-8)..8, j \in {-1, 0, 1}}
    \cup {-61 * MsPerMinute, 61 * MsPerMinute}

\* Intervals, in minutes, of the habit whose due text is shown.
ShownIntervals == {1, 122}

\* time.ts formatRelativeDue.  The text is kept in its parts: "now", or
\* the phrase ("in ..." or "... overdue") with the label's numbers, <<h, m>>
\* for "${h}h ${m}m" and <<m>> for "${m}m".
formatRelativeDue(dueAt, t) ==
  LET diffMs == dueAt - t
      rounded == MathRound(Rat(diffMs, MsPerMinute))
      absMinutes == IF rounded < 0 THEN -rounded ELSE rounded
      hours == absMinutes \div 60
      minutes == absMinutes % 60
      label == IF hours > 0 THEN <<hours, minutes>> ELSE <<minutes>>
  IN IF absMinutes < 1
     THEN [phrase |-> "now", label |-> <<>>]
     ELSE [phrase |-> IF diffMs < 0 THEN "overdue" ELSE "in", label |-> label]

\* The dashboard shows one habit, created at time 0, some time before or
\* after it is due.
InitFormat ==
  \E interval \in ShownIntervals, diff \in DueOffsets :
    LET draft == [type |-> "habit", intervalMinutes |-> interval,
                  targetRepetitionsPerDay |-> 1,
                  expectedDurationMinutes |-> <<>>]
        st == createHabit(EmptyStore, draft, 0, 0, 1).st
    IN /\ st.habits[1].dueAt - diff >= 0
       /\ habits = st.habits
       /\ sessions = <<>>
       /\ completions = <<>>
       /\ postpones = <<>>
       /\ now = st.habits[1].dueAt - diff
       /\ nextUid = 2
       /\ returned = {}
       /\ call = Idle
       /\ preferences = UnsetPreferences

\* The dashboard renders the due text of a habit.
FormatRelativeDue ==
  \E i \in 1..Len(habits) :
    /\ call = Idle
    /\ call' = Called("formatRelativeDue", habits[i].id, <<habits[i].dueAt>>,
                      Outcome(Store, "ok",
                              <<formatRelativeDue(habits[i].dueAt, now)>>))
    /\ UNCHANGED <<habits, sessions, completions, postpones, now, nextUid,
                   returned, preferences>>

NextFormat ==
  \/ FormatRelativeDue
  \/ Return

\* formatRelativeDue applied to a habit's dueAt at times around it.
SpecFormat == InitFormat /\ [][NextFormat]_vars

\* C28 as claimed: formatRelativeDue(dueAt, now) is "now" whenever dueAt
\* is less than 60 seconds from now on either side, and otherwise
\* "in ..." when dueAt is later than now and "... overdue" when earlier.
C28_NowWithinAMinute ==
  IsCall("formatRelativeDue") =>
    LET diffMs == call.arg[1] - now
        text == call.ret[1]
    IN IF -MsPerMinute < diffMs /\ diffMs < MsPerMinute
       THEN text.phrase = "now"
       ELSE IF diffMs > 0
            THEN text.phrase = "in"
            ELSE text.phrase = "overdue"

\* ------------------------------------------------------- per-habit score
\* Drafts of the habit that is scored.
ScoredDrafts ==
  [type : {"habit"}, intervalMinutes : {1, 60},
   targetRepetitionsPerDay : {1, 2},
   expectedDurationMinutes : {<<>>, <<1>>, <<10>>}]

\* How often the habit was completed today and the seconds tracked by
\* each completion; how often it was postponed today.
ScoredCompletions == 0..2

ScoredSeconds == {0, 600}

ScoredPostpones == 0..4

\* dueAt - now, in ms, when the score is asked for.
ScoredDueOffsets == {30 * MsPerMinute, 0, -MsPerMinute, -2 * MsPerMinute}

RECURSIVE completedTimes(_, _, _, _, _, _)
\* The store after the habit id was completed n times at time t by
\* stopping a timer of the given seconds, the completions taking their
\* ids from uid on.
completedTimes(st, id, n, seconds, t, uid) ==
  IF n = 0
  THEN st
  ELSE completedTimes(completeHabit(st, id, <<seconds>>, <<"timer">>, t, uid).st,
                      id, n - 1, seconds, t, uid + 1)

RECURSIVE postponedTimes(_, _, _, _, _)
\* The store after the habit id was postponed n times by two minutes at
\* time t, the postpones taking their ids from uid on.
postponedTimes(st, id, n, t, uid) ==
  IF n = 0
  THEN st
  ELSE postponedTimes(postponeHabit(st, id, 2, t, uid).st,
                      id, n - 1, t, uid + 1)

\* The user has created one habit at time 0 and at once completed and
\* postponed it some times; the dashboard asks for the score before or
\* after the habit is due.
InitHabitScore ==
  \E draft \in ScoredDrafts, n \in ScoredCompletions,
     seconds \in ScoredSeconds, p \in ScoredPostpones,
     offset \in ScoredDueOffsets :
    LET created == createHabit(EmptyStore, draft, 0, 0, 1).st
        st == postponedTimes(completedTimes(created, 1, n, seconds, 0, 2),
                             1, p, 0, 2 + n)
    IN /\ st.habits[1].dueAt - offset >= 0
       /\ habits = st.habits
       /\ sessions = st.sessions
       /\ completions = st.completions
       /\ postpones = st.postpones
       /\ now = st.habits[1].dueAt - offset
       /\ nextUid = 2 + n + p
       /\ returned = {}
       /\ call = Idle
       /\ preferences = UnsetPreferences

\* computeDailyScore applied to one habit with its completions and
\* postpones of the day.
SpecHabitScore == InitHabitScore /\ [][NextScore]_vars

\* The value kept within 0..1, for an exact fraction.
clamp01(x) ==
  IF x[1] < 0 THEN Rat(0, 1)
  ELSE IF x[1] > x[2] THEN Rat(1, 1)
  ELSE x

\* The score formula in exact arithmetic, times 100 and before rounding:
\* clamp01((0.65*repetitionProgress + 0.35*durationProgress)
\*   * (1 - min(0.20, 0.05*postpones)
\*        - min(0.25, 0.15*overdueMinutes/max(1, intervalMinutes)))) * 100
\* with the progresses as the score section defines them.
exactScore(habit, repetitions, seconds, postponeCount, overdueMs) ==
  LET repetitionTarget == Max(1, habit.targetRepetitionsPerDay)
      repetitionProgress == clamp01(Rat(repetitions, repetitionTarget))
      durationTargetMinutes ==
        IF habit.expectedDurationMinutes # <<>>
        THEN habit.expectedDurationMinutes[1] * repetitionTarget
        ELSE 0
      durationProgress ==
        IF durationTargetMinutes > 0
        THEN clamp01(Rat(seconds, 60 * durationTargetMinutes))
        ELSE repetitionProgress
      postponePenalty == RatMin(Rat(20, 100), Rat(5 * postponeCount, 100))
      overduePenalty ==
        RatMin(Rat(25, 100),
               Rat(15 * overdueMs,
                   100 * MsPerMinute * Max(1, habit.intervalMinutes)))
      rawProgress == RatAdd(RatMul(Rat(65, 100), repetitionProgress),
                            RatMul(Rat(35, 100), durationProgress))
      factor == RatSub(RatSub(Rat(1, 1), postponePenalty), overduePenalty)
  IN RatMul(clamp01(RatMul(rawProgress, factor)), Rat(100, 1))

RECURSIVE sumDurationSeconds(_)
\* The durationSeconds of the completions cs, added up.
sumDurationSeconds(cs) ==
  IF cs = <<>> THEN 0
  ELSE cs[1].durationSeconds + sumDurationSeconds(Tail(cs))

\* C21 as claimed: the score computeDailyScore gives a habit is the
\* formula's value, rounded to the nearest integer, for the habit's
\* completions, tracked minutes and postpones of the day and its overdue
\* minutes, and lies in 0..100; for interval 60, target 2, expected
\* duration 10, two completions of 600 s, one postpone and due in 30
\* minutes it is 95.
C21_ScoreIsRoundedFormula ==
  IsCall("score") =>
    \A b \in 1..Len(call.ret[1].breakdown) :
      LET item == call.ret[1].breakdown[b]
          habit == HabitById(habits, item.habitId)
          today == SelectSeq(completions,
                     LAMBDA c : /\ c.habitId = habit.id
                                /\ c.completedAt >= startOfDay(now)
                                /\ c.completedAt <= now)
          postponed == SelectSeq(postpones,
                         LAMBDA q : /\ q.habitId = habit.id
                                    /\ q.postponedAt >= startOfDay(now)
                                    /\ q.postponedAt <= now)
          seconds == sumDurationSeconds(today)
          exact == exactScore(habit, Len(today), seconds, Len(postponed),
                              Max(0, now - habit.dueAt))
      IN /\ item.score = MathRound(exact)
         /\ item.score \in 0..100
         /\ ( /\ habit.intervalMinutes = 60
              /\ habit.targetRepetitionsPerDay = 2
              /\ habit.expectedDurationMinutes = <<10>>
              /\ Len(today) = 2
              /\ seconds = 2 * 600
              /\ Len(postponed) = 1
              /\ habit.dueAt - now = 30 * MsPerMinute
              => item.score = 95 )

\* ------------------------------------------------- calls, await by await
\* Every engine call is an async function: it runs from one await of
\* readCollection or writeCollection to the next, and other calls may run
\* in between.  In the specifications below the variable call holds the
\* calls in flight, one task per slot, and the store as it was when the
\* first of them was invoked.
StepOps ==
  {"create", "update", "archive", "startTimer", "stopTimer", "complete",
   "postpone", "markReminded"}

Read(collection) == <<"read", collection>>

Write(collection) == <<"write", collection>>

\* complete with the habits written before the completions.
programHabitsFirst(op) ==
  CASE op = "create" -> <<Read("habits"), Write("habits")>>
    [] op = "update" -> <<Read("habits"), Write("habits")>>
    [] op = "archive" ->
         <<Read("habits"), Read("sessions"),
           Write("habits"), Write("sessions")>>
    [] op = "startTimer" -> <<Read("sessions"), Write("sessions")>>
    [] op = "stopTimer" ->
         <<Read("sessions"), Write("sessions"),
           Read("habits"), Read("sessions"), Read("completions"),
           Write("habits"), Write("completions"), Write("sessions")>>
    [] op = "complete" ->
         <<Read("habits"), Read("sessions"), Read("completions"),
           Write("habits"), Write("completions"), Write("sessions")>>
    [] op = "postpone" ->
         <<Read("habits"), Read("postpones"),
           Write("habits"), Write("postpones")>>
    [] op = "markReminded" -> <<Read("habits"), Write("habits")>>

\* The awaited reads and writes of a call that runs to its end, in the
\* order of the code; stopHabitTimer goes on with those of completeHabit.
program(op) ==
  CASE op = "create" -> <<Read("habits"), Write("habits")>>
    [] op = "update" -> <<Read("habits"), Write("habits")>>
    [] op = "archive" ->
         <<Read("habits"), Read("sessions"),
           Write("habits"), Write("sessions")>>
    [] op = "startTimer" -> <<Read("sessions"), Write("sessions")>>
    [] op = "stopTimer" ->
         <<Read("sessions"), Write("sessions"),
           Read("habits"), Read("sessions"), Read("completions"),
           Write("completions"), Write("habits"), Write("sessions")>>
    [] op = "complete" ->
         <<Read("habits"), Read("sessions"), Read("completions"),
           Write("completions"), Write("habits"), Write("sessions")>>
    [] op = "postpone" ->
         <<Read("habits"), Read("postpones"),
           Write("habits"), Write("postpones")>>
    [] op = "markReminded" -> <<Read("habits"), Write("habits")>>

\* stopHabitTimer up to its call of completeHabit: throws when the habit
\* has no session, otherwise leaves the sessions without it.
stopHabitTimerFirst(st, habitId) ==
  LET index == sessionIndex(st.sessions, habitId)
      session == st.sessions[index]
      remaining == SelectSeq(st.sessions, LAMBDA s : s.id # session.id)
  IN IF index = 0
     THEN Outcome(st, "NoActiveTimer", <<>>)
     ELSE Outcome([st EXCEPT !.sessions = remaining], "ok", <<session>>)

\* What a task computes from the collections it has read, local, once the
\* read at pc has returned: the collections it goes on to write.  For
\* stopHabitTimer, before is the outcome of its first part.
planned(op, id, arg, pc, before, local, t, uid) ==
  CASE op = "create" -> createHabit(local, arg[1], t, t, uid)
    [] op = "update" -> updateHabit(local, arg[1], id)
    [] op = "archive" -> archiveHabit(local, id)
    [] op = "startTimer" -> startHabitTimer(local, id, t, uid)
    [] op = "stopTimer" ->
         IF pc = 1
         THEN stopHabitTimerFirst(local, id)
         ELSE completeHabit(local, id,
                            <<secondsBetween(before.ret[1].startedAt, t)>>,
                            <<"timer">>, t, uid)
    [] op = "complete" -> completeHabit(local, id, <<>>, <<"manual">>, t, uid)
    [] op = "postpone" -> postponeHabit(local, id, arg[1], t, uid)
    [] op = "markReminded" -> setHabitLastReminder(local, id, arg[1])

\* The call returns or throws without writing: on an error, when
\* startHabitTimer finds a session and when setHabitLastReminder finds no
\* habit.
endsEarly(op, id, local, out) ==
  \/ out.res # "ok"
  \/ op = "startTimer" /\ sessionIndex(local.sessions, id) # 0
  \/ op = "markReminded" /\ habitIndex(local.habits, id) = 0

\* The outcome draws an id from uid(): it holds a record of that id.
drawsUid(out, uid) ==
  \E name \in DOMAIN out.st :
    \E i \in 1..Len(out.st[name]) : out.st[name][i].id = uid

\* The whole call on the collections st, nothing running in between.
runCall(st, op, id, arg, t, uid) ==
  IF op = "stopTimer"
  THEN stopHabitTimer(st, id, t, uid)
  ELSE planned(op, id, arg, 1, Outcome(st, "ok", <<>>), st, t, uid)

\* A slot without a call.
FreeTask ==
  [status |-> "free", op |-> "idle", id |-> UnknownId, arg |-> <<>>,
   pc |-> 0, local |-> EmptyStore, out |-> Outcome(EmptyStore, "ok", <<>>),
   io |-> <<>>, uid |-> <<>>]

\* The arguments a call of op may be given.
ArgsOf(op) ==
  CASE op = "create" -> {<<d>> : d \in {x \in Drafts : x.type = "habit"}}
    [] op = "update" -> {<<d>> : d \in {x \in Drafts : x.type = "task"}}
    [] op = "postpone" -> {<<2>>}
    [] op = "markReminded" -> {<<now>>}
    [] OTHER -> {<<>>}

\* The calls that draw an id when they succeed.
UidOps == {"create", "startTimer", "stopTimer", "complete", "postpone"}

Running(tasks) == {k \in 1..Len(tasks) : tasks[k].status = "running"}

\* A command or action handler calls the engine: the call runs up to its
\* first await.
Invoke ==
  \E k \in 1..Len(call.tasks), op \in StepOps :
    \E id \in (IF op = "create" THEN {UnknownId} ELSE CallIds),
       arg \in ArgsOf(op) :
      /\ call.tasks[k].status = "free"
      /\ op \in UidOps =>
           nextUid + Cardinality({j \in Running(call.tasks) :
                                    call.tasks[j].op \in UidOps}) <= MaxUid
      /\ call' = [base |-> IF \A j \in 1..Len(call.tasks) :
                                    call.tasks[j].status = "free"
                           THEN Store ELSE call.base,
                  tasks |-> [call.tasks EXCEPT
                               ![k] = [FreeTask EXCEPT
                                         !.status = "running", !.op = op,
                                         !.id = id, !.arg = arg, !.pc = 1]]]
      /\ UNCHANGED <<habits, sessions, completions, postpones, now, nextUid,
                     returned, preferences>>

\* An awaited readCollection returns, and the call runs on to its next
\* await: to a further read, to its first write, or to its end.
ReadCollection ==
  \E k \in Running(call.tasks) :
    LET task == call.tasks[k]
        event == program(task.op)[task.pc]
        local == [task.local EXCEPT ![event[2]] = Store[event[2]]]
        decides == program(task.op)[task.pc + 1][1] = "write"
        out == planned(task.op, task.id, task.arg, task.pc, task.out, local,
                       now, nextUid)
        ends == decides /\ endsEarly(task.op, task.id, local, out)
        draws == decides /\ ~ends /\ drawsUid(out, nextUid)
    IN /\ event[1] = "read"
       /\ call' = [call EXCEPT
                     !.tasks[k] =
                        [task EXCEPT
                           !.local = local,
                           !.io = Append(task.io, event),
                           !.out = IF decides THEN out ELSE task.out,
                           !.uid = IF draws THEN <<nextUid>> ELSE task.uid,
                           !.pc = task.pc + 1,
                           !.status = IF ends THEN "done" ELSE "running"]]
       /\ nextUid' = IF draws THEN nextUid + 1 ELSE nextUid
       /\ UNCHANGED <<habits, sessions, completions, postpones, now, returned,
                      preferences>>

\* An awaited writeCollection is done, and the call runs on to its next
\* await or to its end.
WriteCollection ==
  \E k \in Running(call.tasks) :
    LET task == call.tasks[k]
        event == program(task.op)[task.pc]
        last == task.pc = Len(program(task.op))
    IN /\ event[1] = "write"
       /\ habits' = IF event[2] = "habits"
                    THEN task.out.st.habits ELSE habits
       /\ sessions' = IF event[2] = "sessions"
                      THEN task.out.st.sessions ELSE sessions
       /\ completions' = IF event[2] = "completions"
                         THEN task.out.st.completions ELSE completions
       /\ postpones' = IF event[2] = "postpones"
                       THEN task.out.st.postpones ELSE postpones
       /\ call' = [call EXCEPT
                     !.tasks[k] =
                        [task EXCEPT
                           !.io = Append(task.io, event),
                           !.pc = task.pc + 1,
                           !.status = IF last THEN "done" ELSE "running"]]
       /\ UNCHANGED <<now, nextUid, returned, preferences>>

\* The callers have their results: the slots are free again.
Settle ==
  /\ Running(call.tasks) = {}
  /\ \E k \in 1..Len(call.tasks) : call.tasks[k].status # "free"
  /\ call' = [call EXCEPT !.tasks = [k \in 1..Len(call.tasks) |-> FreeTask]]
  /\ UNCHANGED <<habits, sessions, completions, postpones, now, nextUid,
                 returned, preferences>>

\* The process dies: the calls in flight go no further.
Crash ==
  /\ Running(call.tasks) # {}
  /\ call' = [call EXCEPT
                !.tasks = [k \in 1..Len(call.tasks) |->
                             IF call.tasks[k].status = "running"
                             THEN [call.tasks[k] EXCEPT !.status = "crashed"]
                             ELSE call.tasks[k]]]
  /\ UNCHANGED <<habits, sessions, completions, postpones, now, nextUid,
                 returned, preferences>>

\* One habit may have been created a tick ago; one call at a time.
InitSteps ==
  \E k \in 0..1, wait \in TickSteps :
    /\ habits = withHabits(k).habits
    /\ sessions = <<>>
    /\ completions = <<>>
    /\ postpones = <<>>
    /\ now = wait
    /\ nextUid = k + 1
    /\ returned = {}
    /\ call = [base |-> EmptyStore, tasks |-> <<FreeTask>>]
    /\ preferences = UnsetPreferences

NextSteps ==
  \/ Invoke
  \/ ReadCollection
  \/ WriteCollection
  \/ Settle
  \/ Crash

\* The engine calls, one at a time, await by await, with crashes.
SpecSteps == InitSteps /\ [][NextSteps]_vars

\* C22 as claimed: within one engine call no collection is read after
\* any collection has been written.
C22_ReadsBeforeWrites ==
  \A k \in 1..Len(call.tasks) :
    \A i, j \in 1..Len(call.tasks[k].io) :
      call.tasks[k].io[i][1] = "write" /\ i < j
        => call.tasks[k].io[j][1] = "write"

\* The collections a task has written so far, in the order of the writes.
writesOf(task) ==
  [i \in 1..Len(SelectSeq(task.io, LAMBDA e : e[1] = "write")) |->
     SelectSeq(task.io, LAMBDA e : e[1] = "write")[i][2]]

\* C24: a complete call writes completions, then habits, then sessions;
\* wherever it stops, the habit is only changed (its dueAt advanced) and
\* its session is only discarded when the completion record is in the
\* completions collection.
C24_CompletionWrittenFirst ==
  \A k \in 1..Len(call.tasks) :
    LET task == call.tasks[k]
        pre == call.base
        recorded ==
          /\ Len(completions) = Len(pre.completions) + 1
          /\ completions[Len(completions)].habitId = task.id
          /\ completions[Len(completions)].completedAt = now
    IN task.op = "complete" /\ HasHabit(pre.habits, task.id) =>
         /\ IsPrefix(writesOf(task), <<"completions", "habits", "sessions">>)
         /\ HabitById(habits, task.id) # HabitById(pre.habits, task.id)
              => recorded
         /\ HasSession(pre.sessions, task.id) /\ ~HasSession(sessions, task.id)
              => recorded

\* C24 witness: a complete call has crashed after its first write: the
\* completion is recorded, the habit's dueAt is not advanced and its
\* session is still there.
C24_Witness ==
  \E k \in 1..Len(call.tasks) :
    LET task == call.tasks[k] IN
    /\ task.op = "complete"
    /\ task.status = "crashed"
    /\ writesOf(task) = <<"completions">>
    /\ Len(completions) = Len(call.base.completions) + 1
    /\ completions[Len(completions)].habitId = task.id
    /\ HabitById(habits, task.id).dueAt = HabitById(call.base.habits, task.id).dueAt
    /\ HabitById(habits, task.id).dueAt < now + MsPerMinute
    /\ HasSession(sessions, task.id)

\* ---------------------------------------------------------- two callers
\* One habit was created a tick ago and may have a timer; two callers, the
\* dashboard's action handlers and the background command with its toast
\* actions, each make one call.
InitRaces ==
  \E timed \in SUBSET {1}, wait \in TickSteps :
    LET st == withTimers(withHabits(1), timed, 0, 2) IN
    /\ habits = st.habits
    /\ sessions = st.sessions
    /\ completions = <<>>
    /\ postpones = <<>>
    /\ now = wait
    /\ nextUid = 2 + Cardinality(timed)
    /\ returned = {}
    /\ call = [base |-> EmptyStore, tasks |-> <<FreeTask, FreeTask>>]
    /\ preferences = UnsetPreferences

NextRaces ==
  \/ Invoke
  \/ ReadCollection
  \/ WriteCollection

\* The engine calls of two callers, interleaved at their awaits.
SpecRaces == InitRaces /\ [][NextRaces]_vars

\* The collections after the calls of the tasks first and second were run
\* on the collections st one after the other, each with the id it drew.
oneAfterTheOther(st, first, second) ==
  LET uidOf(task) == IF task.uid = <<>> THEN nextUid ELSE task.uid[1]
      between == runCall(st, first.op, first.id, first.arg, now,
                         uidOf(first)).st
  IN runCall(between, second.op, second.id, second.arg, now,
             uidOf(second)).st

\* C23 as claimed: when two engine calls have run interleaved at their
\* awaits, every collection is as it would be had the two calls run one
\* after the other in some order.
C23_InterleavingsAreSerial ==
  Len(call.tasks) = 2
    /\ call.tasks[1].status = "done" /\ call.tasks[2].status = "done"
    => \/ Store = oneAfterTheOther(call.base, call.tasks[1], call.tasks[2])
       \/ Store = oneAfterTheOther(call.base, call.tasks[2], call.tasks[1])

====
